---- MODULE Spec2Model ----
(***************************************************************************)
(* Model of the ios-remote backend: the WDAClient session (connect,        *)
(* disconnect, tap, swipe, sendKeys) and the socket.io gateway of          *)
(* server.js that drives it.                                               *)
(*                                                                         *)
(* Node runs the handlers on one thread: a handler runs without            *)
(* interruption up to its next await of a child process (runCommand), and  *)
(* other handlers run while it waits.  Every action below is one such      *)
(* uninterrupted piece.  execSync blocks the thread, so a whole strategy   *)
(* chain is part of the piece that starts it.                              *)
(***************************************************************************)
EXTENDS Integers, Sequences, FiniteSets, TLC

\* ------------------------------------------------------------------ bounds
NumClients == 2
MaxDevices == 2
MaxTextLen == 1
ConfirmTicks == 1
MaxOutstanding == 2
MaxListeners == 2
MaxSignals == 2

\* --------------------------------------------------------- program constants
\* wda-client.js: "Web interface dimensions (your frontend canvas)"
WebWidth == 315
WebHeight == 560

Clients == 1..NumClients
\* A listing line says Booted or something else; the code tells no other
\* states apart, so every other state is written Shutdown.
Statuses == {"Shutdown", "Booted"}
\* JavaScript null for a device id; device ids are the positive integers.
NoDevice == 0

\* Coordinates are carried in half units so that Math.round is not the
\* identity: 21 is 10.5, -10 is -5, 1200 is 600.
Coords == {-10, 0, 21, 1200}
\* A swipe's start y and end x are always the point inside the surface.
InsideX == CHOOSE v \in Coords : 0 < v /\ v < 2 * WebWidth
InsideY == CHOOSE v \in Coords : 0 < v /\ v < 2 * WebHeight
SessionCoords == {0, 21}
Chars == {" ", "a"}
Texts == UNION {[1..n -> Chars] : n \in 0..MaxTextLen}
SessionTexts == {<<"a">>}

VARIABLES
  registry,       \* the simulators known to `xcrun simctl`, in listing order
  isConnected,    \* WDAClient.isConnected
  currentDevice,  \* WDAClient.currentDevice
  req,            \* per client: the handler waiting on a child process
  log,            \* what the last step printed and emitted
  bootWatch,      \* observer: the latest boot request and its age in ticks
  overtaken,      \* observer: the latest session request to arrive was a
                  \* disconnect, and it arrived while a connect was pending
  connected,      \* per client: socket.connected
  ffmpegStream,   \* the FFmpegStream of server.js
  webrtcStream,   \* a WebRTCStream
  outstanding,    \* per client: request-screenshot events not yet worked off
  signaling,      \* per client socket: its webrtc-signal listeners, and what
                  \* went between the client and its current peer
  names,          \* the device names of the registry, in listing order
  simctl,         \* the SimctlManager
  app             \* the browser client (IOSRemoteApp) and the pointer gesture
                  \* under way on its canvas

simVars == <<names, simctl, app>>
streamVars == <<connected, ffmpegStream, webrtcStream, outstanding, signaling, simVars>>
vars == <<registry, isConnected, currentDevice, req, log, bootWatch, overtaken,
          connected, ffmpegStream, webrtcStream, outstanding, signaling, names, simctl,
          app>>

\* ------------------------------------------------------------ plain records
Idle ==
  [pc |-> "idle", kind |-> "none", deviceId |-> NoDevice, how |-> "none",
   boot |-> FALSE, from |-> NoDevice, args |-> <<>>, stage |-> "none"]

Quiet ==
  [op |-> "none", phase |-> "none", client |-> 0, msg |-> "none", ok |-> FALSE,
   reason |-> "none", dev |-> NoDevice, how |-> "none", boot |-> FALSE,
   from |-> NoDevice, attempts |-> <<>>, errs |-> <<>>, args |-> <<>>,
   applied |-> <<>>, failed |-> FALSE, ready |-> FALSE, pushed |-> FALSE,
   clicks |-> <<>>]

NoWatch == [state |-> "none", dev |-> NoDevice, age |-> 0]

\* JavaScript null for a socket; sockets are the clients.
NoSocket == 0
\* No timer: screenshotInterval undefined or null.  An armed timer has its
\* period, what its callback does ("request": emit request-screenshot when
\* the socket is connected; "empty": nothing) and the socket it emits to.
NoInterval == [armed |-> FALSE, ms |-> 0, cb |-> "none", socket |-> NoSocket]
\* FFmpegStream's constructor; timers counts the timers that setInterval
\* made and clearInterval has not cleared.
NoFFmpegStream ==
  [isStreaming |-> FALSE, currentSocket |-> NoSocket, screenshotInterval |-> NoInterval,
   timers |-> 0]
\* WebRTCStream's constructor
NoWebRTCStream ==
  [isStreaming |-> FALSE, screenshotMode |-> FALSE, peers |-> {},
   screenshotInterval |-> NoInterval]

\* No socket has a webrtc-signal listener.  A listener is TRUE while the
\* peer it closes over is alive, FALSE once that peer is destroyed; sent and
\* inbox are what the client sent since its current peer was made and what
\* that peer was handed; closing counts the peers of a socket that were
\* destroyed and whose "close" event has not been delivered yet.
NoSignaling ==
  [listeners |-> [c \in Clients |-> <<>>], sent |-> [c \in Clients |-> <<>>],
   inbox |-> [c \in Clients |-> <<>>], closing |-> [c \in Clients |-> 0]]

\* IOSRemoteApp's constructor: no simulator running, no press remembered.
\* stage, pointer, start and end follow the gesture the browser is
\* delivering; emitted holds the input messages sent since it began; steady
\* says that the simulator ran throughout it.
NoApp ==
  [simulatorRunning |-> FALSE, touchStartPos |-> <<>>, stage |-> "idle",
   pointer |-> "none", start |-> <<>>, end |-> <<>>, emitted |-> <<>>,
   steady |-> FALSE]

\* SimctlManager's constructor: no current simulator, an empty list.
NoSimctl == [currentSimulator |-> NoDevice, simulators |-> <<>>]

\* ------------------------------------------------------------ WDAClient
\* listDevices: the parsed listing, or [] when the command fails.
ListDevices(cmdOk) ==
  IF cmdOk
    THEN [i \in 1..Len(registry) |-> [id |-> i, type |-> "Simulator", status |-> registry[i]]]
    ELSE <<>>

\* Mutant: the last Booted simulator instead of the first.
FindBootedLast(devices) ==
  LET hits == {i \in 1..Len(devices) :
                 devices[i].type = "Simulator" /\ devices[i].status = "Booted"}
  IN IF hits = {} THEN NoDevice
     ELSE devices[CHOOSE i \in hits : \A j \in hits : i >= j].id

\* devices.find(d => d.type === "Simulator" && d.status === "Booted")
FindBooted(devices) ==
  LET hits == {i \in 1..Len(devices) :
                 devices[i].type = "Simulator" /\ devices[i].status = "Booted"}
  IN IF hits = {} THEN NoDevice
     ELSE devices[CHOOSE i \in hits : \A j \in hits : i <= j].id

\* devices.find(d => d.type === "Simulator")
FindFirstSim(devices) ==
  LET hits == {i \in 1..Len(devices) : devices[i].type = "Simulator"}
  IN IF hits = {} THEN NoDevice
     ELSE devices[CHOOSE i \in hits : \A j \in hits : i <= j].id

\* The confirmation: the line of the fresh listing that names deviceId
\* exists and says Booted.
DeviceLineBooted(deviceId) ==
  /\ deviceId \in 1..Len(registry)
  /\ registry[deviceId] = "Booted"

\* Mutant: the commands never connect first.
NeedsConnectNever == FALSE

\* tap/swipe/sendKeys: if (!this.isConnected || !this.currentDevice)
NeedsConnect == ~isConnected \/ currentDevice = NoDevice

\* xcrun's listing names iPhones and iPads.
DeviceNames == {"iPhone", "iPad"}

\* Everything but the device names.
Constructed ==
  /\ registry \in UNION {[1..n -> Statuses] : n \in 0..MaxDevices}
  /\ isConnected = FALSE
  /\ currentDevice = NoDevice
  /\ req = [c \in Clients |-> Idle]
  /\ log = Quiet
  /\ bootWatch = NoWatch
  /\ overtaken = FALSE
  /\ connected = [c \in Clients |-> TRUE]
  /\ ffmpegStream = NoFFmpegStream
  /\ webrtcStream = NoWebRTCStream
  /\ outstanding = [c \in Clients |-> 0]
  /\ signaling = NoSignaling
  /\ simctl = NoSimctl
  /\ app = NoApp

\* The server after construction; every simulator is an iPhone.
Init == Constructed /\ names = [i \in 1..Len(registry) |-> "iPhone"]

\* ... with iPhones and iPads in the registry.
InitSimctl == Constructed /\ names \in [1..Len(registry) -> DeviceNames]

\* ------------------------------------------------------- strategy chains
\* What a mechanism's command does when it is run: the environment's answer.
\* "fail" is the command (or, for the first mechanism, its probe
\* `devicectl list devices`) throwing; "noFocus" is the keyboard command
\* refused because no editable element has the focus.
TapOutcomes == [1..4 -> {"ok", "fail"}]
SwipeOutcomes == [1..3 -> {"ok", "fail"}]
KeyOutcomes == [1..1 -> {"ok", "noFocus", "fail"}]
\* `xcrun simctl io <device> screenshot <file>` works or throws.
CaptureOutcomes == [1..1 -> {"ok", "fail"}]

OutcomesOf(kind) ==
  CASE kind = "tap" -> TapOutcomes
    [] kind = "swipe" -> SwipeOutcomes
    [] kind = "keyboard-input" -> KeyOutcomes
    [] kind \in {"screenshot", "takeScreenshot"} -> CaptureOutcomes
    [] OTHER -> {<<"ok">>}

Kinds == {"start-simulator", "tap", "swipe", "keyboard-input",
          "screenshot", "takeScreenshot", "connect"}
InputKinds == {"tap", "swipe", "keyboard-input"}
AnyOutcome == [k \in Kinds |-> CHOOSE o \in OutcomesOf(k) : TRUE]

\* error.message of a mechanism that failed
MechError(kind, m, res) == <<kind, m, res>>

\* Math.round on a coordinate in half units
Round(h) == (h + 1) \div 2

\* One try block: run mechanism m, set success or remember the error.
Try(kind, out, m, t) ==
  [success |-> out[m] = "ok",
   lastError |-> IF out[m] = "ok" THEN t.lastError ELSE MechError(kind, m, out[m]),
   tried |-> Append(t.tried, m)]

NotTried == [success |-> FALSE, lastError |-> <<>>, tried |-> <<>>]

\* tap, Try 1: devicectl send-input touch
TapTry1(out) == Try("tap", out, 1, NotTried)
\* tap, Try 2: simctl ui tap, if (!success)
TapTry2(out, t) == IF ~t.success THEN Try("tap", out, 2, t) ELSE t
\* Mutant: Try 3 without its if (!success).
TapTry3Unguarded(out, t) == Try("tap", out, 3, t)

\* tap, Try 3: AppleScript with coordinate mapping, if (!success)
TapTry3(out, t) == IF ~t.success THEN Try("tap", out, 3, t) ELSE t
\* tap, Try 4: debug AppleScript, if (!success)
TapTry4(out, t) == IF ~t.success THEN Try("tap", out, 4, t) ELSE t

\* The error a failed chain throws carries lastError.message alone.
ThrownErrors(t) == <<t.lastError>>

TapChain(out) ==
  LET t == TapTry4(out, TapTry3(out, TapTry2(out, TapTry1(out))))
  IN [success |-> t.success, tried |-> t.tried,
      errs |-> IF t.success THEN <<>> ELSE ThrownErrors(t)]

\* swipe, Try 1: devicectl send-input swipe
SwipeTry1(out) == Try("swipe", out, 1, NotTried)
\* Mutant: Try 2 without its if (!success).
SwipeTry2Unguarded(out, t) == Try("swipe", out, 2, t)

\* swipe, Try 2: AppleScript click pair, if (!success)
SwipeTry2(out, t) == IF ~t.success THEN Try("swipe", out, 2, t) ELSE t
\* Mutant: no fallback in the catch, the error is rethrown at once.
SwipeNoFallback(out, t) == t

\* swipe, catch (execError): AppleScript drag, reached by the throw that
\* follows two failures
SwipeFallback(out, t) == IF ~t.success THEN Try("swipe", out, 3, t) ELSE t

SwipeChain(out) ==
  LET t == SwipeFallback(out, SwipeTry2(out, SwipeTry1(out)))
  IN [success |-> t.success, tried |-> t.tried,
      errs |-> IF t.success THEN <<>> ELSE ThrownErrors(t)]

\* Mutant: a failed keyboard command is run a second time.
KeysChainRetry(out) ==
  LET t1 == Try("keyboard-input", out, 1, NotTried)
      t == IF ~t1.success THEN Try("keyboard-input", out, 1, t1) ELSE t1
  IN [success |-> t.success, tried |-> t.tried,
      errs |-> IF t.success THEN <<>> ELSE ThrownErrors(t)]

\* sendKeys: one execSync of `simctl keyboard type`.
KeysChain(out) ==
  LET t == Try("keyboard-input", out, 1, NotTried)
  IN [success |-> t.success, tried |-> t.tried,
      errs |-> IF t.success THEN <<>> ELSE ThrownErrors(t)]

Chain(kind, out) ==
  CASE kind = "tap" -> TapChain(out)
    [] kind = "swipe" -> SwipeChain(out)
    [] OTHER -> KeysChain(out)

\* What the mechanisms are handed: Math.round of each coordinate; the text
\* as it is.
Applied(kind, args) ==
  IF kind = "keyboard-input" THEN args
  ELSE [i \in 1..Len(args) |-> Round(args[i])]

\* The Simulator window as System Events reports it: position and size.
\* Sizes are such that the scale factors of Try 3 are whole numbers.
Windows ==
  {[pos |-> <<0, 0>>, size |-> <<670, 1200>>],
   [pos |-> <<100, 50>>, size |-> <<1300, 2320>>]}

\* The points mechanism m of tap acts on, for the rounded coordinates
\* <<x, y>> and the Simulator window w.  Try 1 and Try 2 hand the device
\* the coordinates as they are; Try 3 maps the 315x560 web surface onto the
\* window's content area; Try 4 clicks the raw point, the window-relative
\* point and the centre of the window.
TapClicks(m, xy, w) ==
  LET x == xy[1]
      y == xy[2]
      simContentWidth == w.size[1] - 40
      simContentHeight == w.size[2] - 80
      contentStartX == w.pos[1] + 20
      contentStartY == w.pos[2] + 40
      scaleX == simContentWidth \div WebWidth
      scaleY == simContentHeight \div WebHeight
  IN CASE m \in {1, 2} -> << <<x, y>> >>
       [] m = 3 -> << <<contentStartX + x * scaleX, contentStartY + y * scaleY>> >>
       [] OTHER -> << <<x, y>>,
                      <<w.pos[1] + x, w.pos[2] + y>>,
                      <<w.pos[1] + w.size[1] \div 2, w.pos[2] + w.size[2] \div 2>> >>

\* The body of tap/swipe/sendKeys after the connection check, run against
\* this.currentDevice = dev, with the gateway's reply: input-result, success
\* or failure with error.message.
RunInput(c, r, dev, out) ==
  LET ch == Chain(r.kind, out)
  IN [Quiet EXCEPT !.op = r.kind, !.phase = "done", !.client = c,
        !.msg = "input-result", !.ok = ch.success,
        !.reason = IF ch.success THEN "none" ELSE "AllMethodsFailed",
        !.dev = dev, !.how = r.how, !.boot = r.boot, !.from = r.from,
        !.attempts = [i \in 1..Len(ch.tried) |->
                        [mech |-> ch.tried[i], res |-> out[ch.tried[i]]]],
        !.errs = ch.errs, !.args = r.args, !.applied = Applied(r.kind, r.args),
        !.clicks = IF r.kind = "tap"
                     THEN [i \in 1..Len(ch.tried) |->
                             [w \in Windows |->
                                TapClicks(ch.tried[i], Applied(r.kind, r.args), w)]]
                     ELSE <<>>]

\* ------------------------------------------------------------ the gateway
\* The message a handler's catch sends: `error` from start-simulator,
\* `input-result` with success false from the input handlers.
FailureMsg(kind) ==
  CASE kind = "start-simulator" -> "error"
    [] kind = "screenshot" -> "http-500"
    [] kind \in {"takeScreenshot", "connect"} -> "rejected"
    [] OTHER -> "input-result"

\* A handler that ends in its catch, with error.message = reason.
Failed(c, r, reason) ==
  [Quiet EXCEPT !.op = r.kind, !.phase = "done", !.client = c,
     !.msg = FailureMsg(r.kind), !.ok = FALSE, !.reason = reason,
     !.dev = r.deviceId, !.how = r.how, !.boot = r.boot, !.from = r.from,
     !.args = r.args]

\* start-simulator's reply after connectToDevice returned deviceId.
Started(c, r) ==
  [Quiet EXCEPT !.op = r.kind, !.phase = "done", !.client = c,
     !.msg = "simulator-status", !.ok = TRUE, !.dev = r.deviceId,
     !.how = r.how, !.boot = r.boot, !.from = r.from]

\* The capture after the connection check: the screenshot command is run
\* on this.currentDevice = dev.  /api/screenshot answers 200 with the image
\* or 500; takeScreenshot resolves or rejects.
Captured(c, r, dev, out) ==
  [Quiet EXCEPT !.op = r.kind, !.phase = "done", !.client = c,
     !.msg = IF r.kind = "screenshot"
               THEN (IF out[1] = "ok" THEN "http-200" ELSE "http-500")
               ELSE (IF out[1] = "ok" THEN "resolved" ELSE "rejected"),
     !.ok = out[1] = "ok",
     !.reason = IF out[1] = "ok" THEN "none" ELSE "ScreenshotFailed",
     !.dev = dev, !.how = r.how, !.boot = r.boot, !.from = r.from,
     !.attempts = <<[mech |-> 1, res |-> out[1]]>>, !.args = r.args]

\* connectToDevice(deviceId) called directly: it resolves to deviceId.
Resolved(c, r) ==
  [Quiet EXCEPT !.op = r.kind, !.phase = "done", !.client = c,
     !.msg = "resolved", !.ok = TRUE, !.dev = r.deviceId,
     !.how = r.how, !.boot = r.boot, !.from = r.from, !.args = r.args]

\* What the caller of connectToDevice does, in the same turn, once it has
\* returned: start-simulator reports started, an input command runs its
\* chain, a capture runs the screenshot command.
Continued(c, r, dev, out) ==
  CASE r.kind = "start-simulator" -> Started(c, r)
    [] r.kind \in {"screenshot", "takeScreenshot"} -> Captured(c, r, dev, out)
    [] r.kind = "connect" -> Resolved(c, r)
    [] OTHER -> RunInput(c, r, dev, out)

\* The session as connectToDevice finds it when it is called.
SessionDevice == IF isConnected THEN currentDevice ELSE NoDevice

\* Mutant: a catch that rethrows without clearing the session.
ConnectFailedKeeps(c, reason) ==
  /\ UNCHANGED <<isConnected, currentDevice>>
  /\ req' = [req EXCEPT ![c] = Idle]
  /\ log' = Failed(c, req[c], reason)

\* Mutant: the command's own catch swallows the connect error and goes on
\* to its chain.
ConnectFailedSwallowed(c, reason) ==
  /\ isConnected' = FALSE
  /\ currentDevice' = NoDevice
  /\ req' = [req EXCEPT ![c] = Idle]
  /\ log' = IF req[c].kind = "start-simulator"
              THEN Failed(c, req[c], reason)
              ELSE RunInput(c, req[c], req[c].deviceId, AnyOutcome[req[c].kind])

\* Mutant: a catch that lowers the flag and keeps the device reference.
ConnectFailedKeepsDevice(c, reason) ==
  /\ isConnected' = FALSE
  /\ UNCHANGED currentDevice
  /\ req' = [req EXCEPT ![c] = Idle]
  /\ log' = Failed(c, req[c], reason)

\* connectToDevice's catch: the session is cleared and the error rethrown
\* to the handler, which reports it.
ConnectFailed(c, reason) ==
  /\ isConnected' = FALSE
  /\ currentDevice' = NoDevice
  /\ req' = [req EXCEPT ![c] = Idle]
  /\ log' = Failed(c, req[c], reason)

\* The observer of the latest boot request: a connect that gave up because
\* the confirmation listing did not say Booted stays watched until the
\* confirmation period is over.
WatchAfter(c, outcome) ==
  IF req[c].boot /\ bootWatch.state = "waiting" /\ bootWatch.dev = req[c].deviceId
    THEN (IF outcome = "NotBooted" THEN [bootWatch EXCEPT !.state = "failed"] ELSE NoWatch)
    ELSE bootWatch

\* socket.on("start-simulator"): up to `await wdaClient.checkXcode()`.
StartSimulator(c) ==
  /\ connected[c]
  /\ req[c].pc = "idle"
  /\ req' = [req EXCEPT ![c] = [Idle EXCEPT !.pc = "xcode", !.kind = "start-simulator"]]
  /\ log' = Quiet
  /\ UNCHANGED <<registry, isConnected, currentDevice, bootWatch>>
  /\ overtaken' = FALSE
  /\ UNCHANGED streamVars

\* checkXcode resolved (false when `xcodebuild -version` fails); on true
\* the handler goes on to `await wdaClient.listDevices()`.
XcodeChecked(c, cmdOk) ==
  /\ req[c].pc = "xcode"
  /\ IF cmdOk
       THEN /\ req' = [req EXCEPT ![c].pc = "list"]
            /\ log' = Quiet
       ELSE /\ req' = [req EXCEPT ![c] = Idle]
            /\ log' = Failed(c, req[c], "XcodeUnavailable")
  /\ UNCHANGED <<registry, isConnected, currentDevice, bootWatch>>
  /\ UNCHANGED <<streamVars, overtaken>>

\* The handler's own listDevices resolved: no devices is an error, else
\* connectToDevice() is called and waits for its listDevices.
ServerListed(c, cmdOk) ==
  /\ req[c].pc = "list"
  /\ IF Len(ListDevices(cmdOk)) = 0
       THEN /\ req' = [req EXCEPT ![c] = Idle]
            /\ log' = Failed(c, req[c], "NoSimulatorsFound")
       ELSE /\ req' = [req EXCEPT ![c].pc = "clist", ![c].from = SessionDevice]
            /\ log' = Quiet
  /\ UNCHANGED <<registry, isConnected, currentDevice, bootWatch>>
  /\ UNCHANGED <<streamVars, overtaken>>

\* connectToDevice, deviceId null: listDevices resolved.  The first Booted
\* simulator is selected; with none, the first simulator is booted; with
\* no simulator the call fails.
ConnectListed(c, cmdOk) ==
  /\ req[c].pc = "clist"
  /\ LET devices == ListDevices(cmdOk)
         simulator == FindBooted(devices)
         firstSim == FindFirstSim(devices)
     IN IF simulator # NoDevice
          THEN /\ req' = [req EXCEPT ![c].pc = "confirm", ![c].deviceId = simulator,
                                     ![c].how = "booted"]
               /\ log' = Quiet
               /\ UNCHANGED <<isConnected, currentDevice, bootWatch>>
          ELSE IF firstSim # NoDevice
            THEN /\ req' = [req EXCEPT ![c].pc = "boot", ![c].deviceId = firstSim,
                                       ![c].how = "first", ![c].boot = TRUE]
                 /\ log' = Quiet
                 /\ bootWatch' = [state |-> "waiting", dev |-> firstSim, age |-> 0]
                 /\ UNCHANGED <<isConnected, currentDevice>>
            ELSE /\ ConnectFailed(c, "NoSimulator")
                 /\ UNCHANGED bootWatch
  /\ UNCHANGED registry
  /\ UNCHANGED <<streamVars, overtaken>>

\* `await this.runCommand(["boot", firstSim.id])` resolved or rejected.
BootReturned(c, cmdOk) ==
  /\ req[c].pc = "boot"
  /\ IF cmdOk
       THEN /\ req' = [req EXCEPT ![c].pc = "confirm"]
            /\ log' = Quiet
            /\ UNCHANGED <<isConnected, currentDevice, bootWatch>>
       ELSE /\ ConnectFailed(c, "CommandFailed")
            /\ bootWatch' = WatchAfter(c, "CommandFailed")
  /\ UNCHANGED registry
  /\ UNCHANGED <<streamVars, overtaken>>

\* The confirmation listing resolved.  Booted: the session is set and the
\* caller continues in the same turn (start-simulator reports started; an
\* input command runs its chain, whose mechanisms answer `out`).  Otherwise
\* connectToDevice throws.
Confirmed(c, cmdOk, out) ==
  /\ req[c].pc = "confirm"
  /\ IF cmdOk /\ DeviceLineBooted(req[c].deviceId)
       THEN /\ currentDevice' = req[c].deviceId
            /\ isConnected' = TRUE
            /\ req' = [req EXCEPT ![c] = Idle]
            /\ log' = Continued(c, req[c], req[c].deviceId, out)
            /\ bootWatch' = WatchAfter(c, "Connected")
       ELSE /\ ConnectFailed(c, IF cmdOk THEN "NotBooted" ELSE "CommandFailed")
            /\ bootWatch' = WatchAfter(c, IF cmdOk THEN "NotBooted" ELSE "CommandFailed")
  /\ UNCHANGED registry
  /\ UNCHANGED <<streamVars, overtaken>>

\* A connectToDevice call is waiting for one of its commands.
ConnectPending == \E c \in Clients : req[c].pc \in {"clist", "boot", "confirm"}

\* Mutant: a disconnect that lowers the flag and keeps the device reference.
DisconnectKeepsDevice ==
  /\ isConnected' = FALSE
  /\ UNCHANGED currentDevice

\* WDAClient.disconnect
Disconnect ==
  /\ isConnected' = FALSE
  /\ currentDevice' = NoDevice

\* socket.on("stop-simulator")
StopSimulator(c) ==
  /\ connected[c]
  /\ Disconnect
  /\ log' = [Quiet EXCEPT !.op = "stop-simulator", !.phase = "done", !.client = c,
               !.msg = "simulator-status", !.ok = TRUE, !.from = SessionDevice]
  /\ UNCHANGED <<registry, req, bootWatch>>
  /\ overtaken' = ConnectPending
  /\ UNCHANGED streamVars

\* JavaScript's !v for a number
Falsy(v) == v = 0

\* text.trim()
RECURSIVE TrimLeft(_)
TrimLeft(t) == IF t # <<>> /\ Head(t) = " " THEN TrimLeft(Tail(t)) ELSE t
RECURSIVE TrimRight(_)
TrimRight(t) ==
  IF t # <<>> /\ t[Len(t)] = " " THEN TrimRight(SubSeq(t, 1, Len(t) - 1)) ELSE t
Trim(t) == TrimRight(TrimLeft(t))

\* The gateway's check of an input message before it calls the client.
Rejected(kind, args) ==
  IF kind = "keyboard-input"
    THEN Len(args) = 0 \/ Len(Trim(args)) = 0
    ELSE \E i \in 1..Len(args) : Falsy(args[i])

RejectReason(kind) ==
  IF kind = "keyboard-input" THEN "EmptyInput" ELSE "InvalidCoordinates"

\* socket.on("tap" | "swipe" | "keyboard-input") and WDAClient.tap / swipe /
\* sendKeys: the gateway's check, then the connection check (an unconnected
\* client connects first), then the chain, whose mechanisms answer `out`.
Input(c, kind, args, out) ==
  /\ connected[c]
  /\ req[c].pc = "idle"
  /\ LET r == [Idle EXCEPT !.kind = kind, !.args = args, !.from = SessionDevice]
     IN IF Rejected(kind, args)
          THEN /\ log' = Failed(c, r, RejectReason(kind))
               /\ UNCHANGED req
          ELSE IF NeedsConnect
            THEN /\ req' = [req EXCEPT ![c] = [r EXCEPT !.pc = "clist"]]
                 /\ log' = Quiet
            ELSE /\ log' = RunInput(c, r, currentDevice, out)
                 /\ UNCHANGED req
  /\ UNCHANGED <<registry, isConnected, currentDevice, bootWatch>>
  /\ overtaken' = IF ~Rejected(kind, args) /\ NeedsConnect THEN FALSE ELSE overtaken
  /\ UNCHANGED streamVars

\* The answers the mechanisms can give when the handler gets as far as its
\* chain (those of O); one arbitrary answer stands for all when it does not.
Answers(kind, runs, O) == IF runs THEN O[kind] ELSE {AnyOutcome[kind]}

\* Every answer, and the two extremes: every mechanism works, none does.
AllOutcomes == [k \in Kinds |-> OutcomesOf(k)]
UniformOutcomes ==
  [k \in Kinds |-> {o \in OutcomesOf(k) :
                      \A m \in DOMAIN o : o[m] = o[1] /\ o[m] \in {"ok", "fail"}}]

InputRuns(kind, args) == ~Rejected(kind, args) /\ ~NeedsConnect

ConfirmRuns(c) ==
  /\ req[c].kind \notin {"start-simulator", "connect"}
  /\ DeviceLineBooted(req[c].deviceId)

Tap(c, x, y, out) == Input(c, "tap", <<x, y>>, out)
Swipe(c, sx, sy, ex, ey, out) == Input(c, "swipe", <<sx, sy, ex, ey>>, out)
SendKeys(c, text, out) == Input(c, "keyboard-input", text, out)

\* ------------------------------------------------- capture, direct calls
\* app.get("/api/screenshot"): if (!wdaClient.isConnected) the endpoint
\* connects first; then it runs the screenshot command on currentDevice.
CaptureNeedsConnect == ~isConnected

\* A capture arrives: needs tells whether it connects first.
CaptureCall(c, kind, needs, out) ==
  /\ req[c].pc = "idle"
  /\ LET r == [Idle EXCEPT !.kind = kind, !.from = SessionDevice]
     IN IF needs
          THEN /\ req' = [req EXCEPT ![c] = [r EXCEPT !.pc = "clist"]]
               /\ log' = Quiet
          ELSE /\ log' = Captured(c, r, currentDevice, out)
               /\ UNCHANGED req
  /\ UNCHANGED <<registry, isConnected, currentDevice, bootWatch>>
  /\ overtaken' = IF needs THEN FALSE ELSE overtaken
  /\ UNCHANGED streamVars

\* GET /api/screenshot
Screenshot(c, out) == CaptureCall(c, "screenshot", CaptureNeedsConnect, out)

\* WDAClient.takeScreenshot
TakeScreenshot(c, out) == CaptureCall(c, "takeScreenshot", NeedsConnect, out)

\* WDAClient.getStatus: returns the two fields as they are, never throws.
GetStatus(c) ==
  /\ log' = [Quiet EXCEPT !.op = "getStatus", !.phase = "done", !.client = c,
               !.msg = "resolved", !.ok = TRUE, !.dev = currentDevice]
  /\ UNCHANGED <<registry, isConnected, currentDevice, req, bootWatch, overtaken>>
  /\ UNCHANGED streamVars

\* connectToDevice(deviceId) with an id: no selection and no boot, the call
\* goes straight to its confirmation listing.
ConnectToDevice(c, deviceId) ==
  /\ req[c].pc = "idle"
  /\ req' = [req EXCEPT ![c] =
               [Idle EXCEPT !.pc = "confirm", !.kind = "connect",
                            !.deviceId = deviceId, !.how = "explicit",
                            !.from = SessionDevice, !.args = <<deviceId>>]]
  /\ log' = Quiet
  /\ UNCHANGED <<registry, isConnected, currentDevice, bootWatch>>
  /\ overtaken' = FALSE
  /\ UNCHANGED streamVars

\* ------------------------------------------------------------ SimctlManager
\* deviceState.toLowerCase()
Lower(state) == IF state = "Booted" THEN "booted" ELSE "shutdown"

\* listSimulators' parse of `xcrun simctl list devices`: one entry for each
\* line that names an iPhone or an iPad.
ParsedSimulators ==
  SelectSeq([i \in 1..Len(registry) |->
               [id |-> i, name |-> names[i], state |-> Lower(registry[i])]],
            LAMBDA s : s.name \in {"iPhone", "iPad"})

\* The loop over the parsed list: every booted entry becomes the current
\* simulator in its turn, so the last one stays.
CurrentAfterList(sims, cur) ==
  LET hits == {i \in 1..Len(sims) : sims[i].state = "booted"}
  IN IF hits = {} THEN cur ELSE sims[CHOOSE i \in hits : \A j \in hits : i >= j].id

\* The reply of a handler of the simctl server.
SimReply(c, op, msg, ok, reason, dev, boot) ==
  [Quiet EXCEPT !.op = op, !.phase = "done", !.client = c, !.msg = msg, !.ok = ok,
     !.reason = reason, !.dev = dev, !.boot = boot]

\* socket.on("get-simulators") and SimctlManager.listSimulators, when the
\* listing command returns: the list is parsed and kept.
ListSimulators(c, cmdOk) ==
  /\ connected[c]
  /\ IF cmdOk
       THEN /\ simctl' = [simulators |-> ParsedSimulators,
                          currentSimulator |->
                            CurrentAfterList(ParsedSimulators, simctl.currentSimulator)]
            /\ log' = SimReply(c, "sim-list", "simulators-list", TRUE, "none", NoDevice, FALSE)
       ELSE /\ UNCHANGED simctl
            /\ log' = SimReply(c, "sim-list", "error", FALSE, "CommandFailed", NoDevice, FALSE)
  /\ UNCHANGED <<registry, isConnected, currentDevice, req, bootWatch, overtaken>>
  /\ UNCHANGED <<connected, ffmpegStream, webrtcStream, outstanding, signaling, names, app>>

\* this.simulators.filter(s => s.state === "booted" && s.name.includes("iPhone"))
BootedSims(sims) == SelectSeq(sims, LAMBDA s : s.state = "booted" /\ s.name = "iPhone")
\* this.simulators.filter(s => s.name.includes("iPhone"))
AnyIPhoneSims(sims) == SelectSeq(sims, LAMBDA s : s.name = "iPhone")

\* socket.on("start-simulator") of the simctl server and
\* SimctlManager.startSimulator(deviceId), up to its first await.  With a
\* deviceId that device is booted.  Without one (NoDevice) a booted iPhone
\* of the kept list is returned as already running; else the first iPhone
\* of the kept list is booted; with no iPhone in the kept list the call
\* throws.
SimctlStartSimulator(c, deviceId) ==
  /\ connected[c]
  /\ deviceId \in {NoDevice} \cup (1..Len(registry))
  /\ req[c].pc = "idle"
  /\ LET bootedSims == BootedSims(simctl.simulators)
         anyIPhoneSims == AnyIPhoneSims(simctl.simulators)
     IN IF deviceId # NoDevice
          THEN /\ req' = [req EXCEPT ![c] =
                           [Idle EXCEPT !.pc = "simboot", !.kind = "sim-start",
                                        !.deviceId = deviceId, !.boot = TRUE,
                                        !.how = "explicit"]]
               /\ log' = [SimReply(c, "sim-start", "none", FALSE, "none", deviceId, TRUE)
                            EXCEPT !.phase = "requested", !.how = "explicit"]
               /\ UNCHANGED simctl
        ELSE IF Len(bootedSims) > 0
          THEN /\ simctl' = [simctl EXCEPT !.currentSimulator = bootedSims[1].id]
               /\ log' = SimReply(c, "sim-start", "simulator-status", TRUE, "none",
                                  bootedSims[1].id, FALSE)
               /\ UNCHANGED req
          ELSE IF Len(anyIPhoneSims) > 0
            THEN /\ req' = [req EXCEPT ![c] =
                             [Idle EXCEPT !.pc = "simboot", !.kind = "sim-start",
                                          !.deviceId = anyIPhoneSims[1].id, !.boot = TRUE]]
                 /\ log' = [SimReply(c, "sim-start", "none", FALSE, "none",
                                     anyIPhoneSims[1].id, TRUE) EXCEPT !.phase = "selected"]
                 /\ UNCHANGED simctl
            ELSE /\ log' = SimReply(c, "sim-start", "error", FALSE, "NoIPhone", NoDevice, FALSE)
                 /\ UNCHANGED <<req, simctl>>
  /\ UNCHANGED <<registry, isConnected, currentDevice, bootWatch, overtaken>>
  /\ UNCHANGED <<connected, ffmpegStream, webrtcStream, outstanding, signaling, names, app>>

\* The boot command (then the wait and `open -a Simulator`) returned: the
\* current simulator is looked up in the kept list and the start reported.
SimBootReturned(c, cmdOk) ==
  /\ req[c].pc = "simboot"
  /\ req' = [req EXCEPT ![c] = Idle]
  /\ IF cmdOk
       THEN /\ simctl' = [simctl EXCEPT !.currentSimulator =
                           IF \E i \in 1..Len(simctl.simulators) :
                                simctl.simulators[i].id = req[c].deviceId
                             THEN req[c].deviceId ELSE NoDevice]
            /\ log' = SimReply(c, "sim-boot", "simulator-status", TRUE, "none",
                               req[c].deviceId, TRUE)
       ELSE /\ UNCHANGED simctl
            /\ log' = SimReply(c, "sim-boot", "error", FALSE, "CommandFailed",
                               req[c].deviceId, TRUE)
  /\ UNCHANGED <<registry, isConnected, currentDevice, bootWatch, overtaken>>
  /\ UNCHANGED <<connected, ffmpegStream, webrtcStream, outstanding, signaling, names, app>>

\* socket.on("stop-simulator") of the simctl server and
\* SimctlManager.stopSimulator(): without a current simulator the call
\* throws; else the current simulator is shut down and forgotten, unless
\* the shutdown command fails.
SimctlStopSimulator(c, cmdOk) ==
  /\ connected[c]
  /\ req[c].pc = "idle"
  /\ LET cur == simctl.currentSimulator
     IN IF cur = NoDevice
          THEN /\ log' = SimReply(c, "sim-stop", "error", FALSE, "NoSimulatorRunning",
                                  NoDevice, FALSE)
               /\ UNCHANGED <<registry, simctl>>
          ELSE IF cmdOk
            THEN /\ registry' = [registry EXCEPT ![cur] = "Shutdown"]
                 /\ simctl' = [simctl EXCEPT !.currentSimulator = NoDevice]
                 /\ log' = SimReply(c, "sim-stop", "simulator-status", TRUE, "none", cur, FALSE)
            ELSE /\ log' = SimReply(c, "sim-stop", "error", FALSE, "CommandFailed", cur, FALSE)
                 /\ UNCHANGED <<registry, simctl>>
  /\ UNCHANGED <<isConnected, currentDevice, req, bootWatch, overtaken>>
  /\ UNCHANGED <<connected, ffmpegStream, webrtcStream, outstanding, signaling, names, app>>

\* ------------------------------------------------------------ environment
\* A simulator changes state outside the server (booted, shut down, still
\* booting).
EnvStatus(i, s) ==
  /\ i \in 1..Len(registry)
  /\ registry[i] # s
  /\ registry' = [registry EXCEPT ![i] = s]
  /\ log' = Quiet
  /\ UNCHANGED <<isConnected, currentDevice, req, bootWatch>>
  /\ UNCHANGED <<streamVars, overtaken>>

\* Time passes: the latest boot request grows older, up to the end of the
\* confirmation period.
Tick ==
  /\ bootWatch.state # "none"
  /\ bootWatch.age <= ConfirmTicks
  /\ bootWatch' = [bootWatch EXCEPT !.age = @ + 1]
  /\ log' = Quiet
  /\ UNCHANGED <<registry, isConnected, currentDevice, req>>
  /\ UNCHANGED <<streamVars, overtaken>>

\* ------------------------------------------------------- device listing
\* get-simulators: each device in the form the web client expects.
Simulators(devices) ==
  [i \in 1..Len(devices) |->
     [id |-> devices[i].id,
      state |-> IF devices[i].status = "Booted" THEN "booted" ELSE "shutdown"]]

\* socket.on("get-simulators"): up to `await wdaClient.listDevices()`.
GetSimulators(c) ==
  /\ connected[c]
  /\ req[c].pc = "idle"
  /\ req' = [req EXCEPT ![c] = [Idle EXCEPT !.pc = "glist", !.kind = "get-simulators"]]
  /\ log' = Quiet
  /\ UNCHANGED <<registry, isConnected, currentDevice, bootWatch, overtaken, streamVars>>

\* listDevices resolved: with the parsed listing, or with [] out of its own
\* catch when the command failed; the handler sends what it got.
SimulatorsListed(c, cmdOk) ==
  /\ req[c].pc = "glist"
  /\ req' = [req EXCEPT ![c] = Idle]
  /\ log' = [Quiet EXCEPT !.op = "get-simulators", !.phase = "done", !.client = c,
               !.msg = "simulators-list", !.ok = TRUE, !.failed = ~cmdOk,
               !.args = Simulators(ListDevices(cmdOk))]
  /\ UNCHANGED <<registry, isConnected, currentDevice, bootWatch, overtaken, streamVars>>

\* The child process of a pending runCommand never closes: its promise
\* stays pending, and runCommand arms no timer.
Awaiting == {"xcode", "list", "clist", "boot", "confirm", "glist"}
CommandHangs(c) ==
  /\ req[c].pc \in Awaiting
  /\ req' = [req EXCEPT ![c].pc = "hung", ![c].stage = req[c].pc]
  /\ log' = Quiet
  /\ UNCHANGED <<registry, isConnected, currentDevice, bootWatch, overtaken, streamVars>>

\* ------------------------------------------------------------ streaming
\* "Take screenshot every 100ms (10 FPS)"
ScreenshotMs == 100
\* updateStreamQuality's table; 0 stands for a level the table lacks.
Intervals(quality) ==
  CASE quality = "low" -> 200
    [] quality = "medium" -> 100
    [] quality = "high" -> 50
    [] OTHER -> 0
Qualities == {"low", "medium", "high", "ultra"}

\* The reply of a stream handler.
StreamReply(c, op, msg, ok, reason) ==
  [Quiet EXCEPT !.op = op, !.phase = "done", !.client = c, !.msg = msg, !.ok = ok,
     !.reason = reason, !.from = SessionDevice]

\* Mutant: the stored timer is forgotten without clearInterval.
IntervalDropped(f) == [f EXCEPT !.screenshotInterval = NoInterval]

\* if (this.screenshotInterval) clearInterval(this.screenshotInterval)
IntervalCleared(f) ==
  [f EXCEPT !.timers = IF f.screenshotInterval.armed THEN @ - 1 ELSE @,
            !.screenshotInterval = NoInterval]

\* Mutant: a stop that leaves the client channel attached.
FFmpegStoppedKeepsSocket ==
  [IntervalCleared(ffmpegStream) EXCEPT !.isStreaming = FALSE]

\* FFmpegStream.stopStream: the fields it leaves behind.
FFmpegStopped ==
  [IntervalCleared(ffmpegStream) EXCEPT !.isStreaming = FALSE, !.currentSocket = NoSocket]

\* startStream's `if (this.isStreaming) await this.stopStream()`
FFmpegRestarted == IF ffmpegStream.isStreaming THEN FFmpegStopped ELSE ffmpegStream

\* FFmpegStream.startScreenshotLoop: any old timer is cleared, a new one set.
FFmpegLoop(socket) ==
  [armed |-> TRUE, ms |-> ScreenshotMs, cb |-> "request", socket |-> socket]

\* socket.on("start-stream") and FFmpegStream.startStream(socket): a running
\* stream is stopped first; the awaits inside resolve in the same turn.
StartStream(c) ==
  /\ connected[c]
  /\ ffmpegStream' = [IntervalCleared(FFmpegRestarted) EXCEPT
                        !.isStreaming = TRUE, !.currentSocket = c,
                        !.screenshotInterval = FFmpegLoop(c), !.timers = @ + 1]
  /\ log' = [StreamReply(c, "start-stream", "stream-status", TRUE, "none")
               EXCEPT !.how = IF ffmpegStream.isStreaming THEN "restart" ELSE "start"]
  /\ UNCHANGED <<registry, isConnected, currentDevice, req, bootWatch, overtaken,
                 connected, webrtcStream, outstanding, signaling, simVars>>

\* socket.on("stop-stream") and FFmpegStream.stopStream
StopStream(c) ==
  /\ connected[c]
  /\ ffmpegStream' = FFmpegStopped
  /\ log' = StreamReply(c, "stop-stream", "stream-status", TRUE, "none")
  /\ UNCHANGED <<registry, isConnected, currentDevice, req, bootWatch, overtaken,
                 connected, webrtcStream, outstanding, signaling, simVars>>

\* socket.on("disconnect"): the handler logs; socket.connected is false from
\* then on.
ClientDisconnect(c) ==
  /\ connected[c]
  /\ connected' = [connected EXCEPT ![c] = FALSE]
  /\ log' = [Quiet EXCEPT !.op = "disconnect", !.phase = "done", !.client = c]
  /\ UNCHANGED <<registry, isConnected, currentDevice, req, bootWatch, overtaken,
                 ffmpegStream, webrtcStream, outstanding, signaling, simVars>>

\* One firing of a timer's callback: request-screenshot goes to the timer's
\* socket when there is one and it is connected; nothing happens otherwise.
Ready(t) == t.socket # NoSocket /\ connected[t.socket]
\* Mutant: the callback does not look at socket.connected.
PushesUnchecked(t) == t.cb = "request" /\ t.socket # NoSocket

Pushes(t) == t.cb = "request" /\ Ready(t)
Fired(op, t) ==
  /\ t.armed
  /\ IF Pushes(t)
       THEN /\ outstanding[t.socket] < MaxOutstanding
            /\ outstanding' = [outstanding EXCEPT ![t.socket] = @ + 1]
       ELSE UNCHANGED outstanding
  /\ log' = [Quiet EXCEPT !.op = op, !.phase = "tick", !.client = t.socket,
               !.ready = Ready(t), !.pushed = Pushes(t)]

\* FFmpegStream's setInterval callback; it reads this.currentSocket.
ScreenshotTick ==
  /\ Fired("screenshot-tick",
           [ffmpegStream.screenshotInterval EXCEPT !.socket = ffmpegStream.currentSocket])
  /\ UNCHANGED <<registry, isConnected, currentDevice, req, bootWatch, overtaken,
                 connected, ffmpegStream, webrtcStream, signaling, simVars>>

\* The web client's requestScreenshot settles: one request is worked off.
ScreenshotSettled(c) ==
  /\ outstanding[c] > 0
  /\ outstanding' = [outstanding EXCEPT ![c] = @ - 1]
  /\ log' = Quiet
  /\ UNCHANGED <<registry, isConnected, currentDevice, req, bootWatch, overtaken,
                 connected, ffmpegStream, webrtcStream, signaling, simVars>>

\* ------------------------------------------------------------ WebRTCStream
sessionVars == <<registry, isConnected, currentDevice, req, bootWatch, overtaken>>

\* Mutant: a stop that clears the timer and leaves the peers.
RtcStoppedKeepsPeers ==
  [webrtcStream EXCEPT !.isStreaming = FALSE, !.screenshotInterval = NoInterval]

\* WebRTCStream.stopStream: the timer is cleared, every peer destroyed.
RtcStopped ==
  [webrtcStream EXCEPT !.isStreaming = FALSE, !.peers = {},
                       !.screenshotInterval = NoInterval]

\* WebRTCStream.startScreenshotLoop(socket)
RtcLoop(socket) ==
  [armed |-> TRUE, ms |-> ScreenshotMs, cb |-> "request", socket |-> socket]

\* peer.destroy() on the peers the map holds for the sockets cs: the map's
\* peer of a socket is the one made last for it, its listener now closes
\* over a destroyed peer.  The transport delivers the peer's "close" event
\* in the same turn, when the map no longer holds the peer, or (late) in a
\* turn of its own.
PeersDestroyed(sig, cs, late) ==
  [listeners |-> [c \in Clients |->
                    IF c \in cs /\ c \in webrtcStream.peers
                      THEN [sig.listeners[c] EXCEPT ![Len(sig.listeners[c])] = FALSE]
                      ELSE sig.listeners[c]],
   sent |-> [c \in Clients |-> IF c \in cs THEN <<>> ELSE sig.sent[c]],
   inbox |-> [c \in Clients |-> IF c \in cs THEN <<>> ELSE sig.inbox[c]],
   closing |-> [c \in Clients |->
                  IF late /\ c \in cs /\ c \in webrtcStream.peers
                    THEN sig.closing[c] + 1 ELSE sig.closing[c]]]

\* startStream's `if (this.isStreaming) await this.stopStream()`
RtcRestarted == IF webrtcStream.isStreaming THEN RtcStopped ELSE webrtcStream
SignalingRestarted(late) ==
  IF webrtcStream.isStreaming THEN PeersDestroyed(signaling, Clients, late) ELSE signaling

\* setupWebRTCConnection(socket): the peer is stored under socket.id and a
\* further webrtc-signal listener, closing over it, is added to the socket.
PeerSetUp(sig, c) ==
  [sig EXCEPT !.listeners[c] = Append(@, TRUE), !.sent[c] = <<>>, !.inbox[c] = <<>>]

\* WebRTCStream.startStream(socket): a running stream is stopped first and
\* the running flag set; then the backend of the current mode is started.
\* `new SimplePeer` may throw (ok = FALSE); the catch only rethrows.
RtcStartStream(c, ok, late) ==
  /\ connected[c]
  /\ (~webrtcStream.screenshotMode /\ ok) => Len(signaling.listeners[c]) < MaxListeners
  /\ IF webrtcStream.screenshotMode
       THEN /\ webrtcStream' = [RtcRestarted EXCEPT !.isStreaming = TRUE,
                                                     !.screenshotInterval = RtcLoop(c)]
            /\ signaling' = SignalingRestarted(late)
            /\ log' = StreamReply(c, "rtc-start", "stream-started", TRUE, "none")
       ELSE IF ok
         THEN /\ webrtcStream' = [RtcRestarted EXCEPT !.isStreaming = TRUE,
                                                       !.peers = @ \cup {c}]
              /\ signaling' = PeerSetUp(SignalingRestarted(late), c)
              /\ log' = StreamReply(c, "rtc-start", "stream-started", TRUE, "none")
         ELSE /\ webrtcStream' = [RtcRestarted EXCEPT !.isStreaming = TRUE]
              /\ signaling' = SignalingRestarted(late)
              /\ log' = StreamReply(c, "rtc-start", "error", FALSE, "StreamBackendError")
  /\ UNCHANGED <<sessionVars, connected, ffmpegStream, outstanding, simVars>>

RtcStopStream(late) ==
  /\ webrtcStream' = RtcStopped
  /\ signaling' = PeersDestroyed(signaling, Clients, late)
  /\ log' = StreamReply(0, "rtc-stop", "stream-stopped", TRUE, "none")
  /\ UNCHANGED <<sessionVars, connected, ffmpegStream, outstanding, simVars>>

\* enableWebRTCMode / enableScreenshotMode: the flag is set, nothing else.
EnableMode(screenshot) ==
  /\ webrtcStream' = [webrtcStream EXCEPT !.screenshotMode = screenshot]
  /\ log' = [StreamReply(0, "enable-mode", "mode", TRUE, "none")
               EXCEPT !.args = <<IF screenshot THEN "screenshot" ELSE "webrtc">>]
  /\ UNCHANGED <<sessionVars, connected, ffmpegStream, outstanding, signaling, simVars>>
EnableWebRTCMode == EnableMode(FALSE)
EnableScreenshotMode == EnableMode(TRUE)

\* The timer updateStreamQuality sets in place of the old one: its callback
\* is empty ("Recreate screenshot loop with new interval").
RtcRetimed(old, quality) ==
  [old EXCEPT !.ms = Intervals(quality), !.cb = "empty"]

\* WebRTCStream.updateStreamQuality(quality)
UpdateStreamQuality(quality) ==
  /\ IF ~webrtcStream.isStreaming
       THEN /\ log' = [StreamReply(0, "update-quality", "error", FALSE, "NoActiveStream")
                         EXCEPT !.args = <<quality>>]
            /\ UNCHANGED webrtcStream
       ELSE /\ webrtcStream' =
                 IF /\ webrtcStream.screenshotMode
                    /\ Intervals(quality) # 0
                    /\ webrtcStream.screenshotInterval.armed
                   THEN [webrtcStream EXCEPT !.screenshotInterval =
                           RtcRetimed(webrtcStream.screenshotInterval, quality)]
                   ELSE webrtcStream
            /\ log' = [StreamReply(0, "update-quality", "quality", TRUE, "none")
                         EXCEPT !.args = <<quality>>]
  /\ UNCHANGED <<sessionVars, connected, ffmpegStream, outstanding, signaling, simVars>>

\* WebRTCStream's setInterval callback; it closes over the socket it was
\* started for.
RtcTick ==
  /\ Fired("rtc-tick", webrtcStream.screenshotInterval)
  /\ UNCHANGED <<sessionVars, connected, ffmpegStream, webrtcStream, signaling, simVars>>

\* peer.on("close") outside stopStream: the connection of the socket's
\* current peer ends, the peer is destroyed and its "close" handler runs
\* in the same turn.
PeerClosed(c) ==
  /\ c \in webrtcStream.peers
  /\ webrtcStream' = [webrtcStream EXCEPT !.peers = @ \ {c}]
  /\ signaling' = PeersDestroyed(signaling, {c}, FALSE)
  /\ log' = Quiet
  /\ UNCHANGED <<sessionVars, connected, ffmpegStream, outstanding, simVars>>

\* peer.on("close") of a peer that was destroyed earlier: the handler
\* deletes the entry of the socket the peer was made for, whichever peer
\* the entry holds by now.
PeerLateClose(c) ==
  /\ signaling.closing[c] > 0
  /\ webrtcStream' = [webrtcStream EXCEPT !.peers = @ \ {c}]
  /\ signaling' = [signaling EXCEPT !.closing[c] = @ - 1]
  /\ log' = [Quiet EXCEPT !.op = "peer-close", !.phase = "done", !.client = c]
  /\ UNCHANGED <<sessionVars, connected, ffmpegStream, outstanding, simVars>>

\* WebRTCStream.handleClientDisconnect(socketId): the socket's peer, if the
\* map holds one, is destroyed and its entry deleted.
HandleClientDisconnect(c, late) ==
  /\ webrtcStream' = [webrtcStream EXCEPT !.peers = @ \ {c}]
  /\ signaling' = [PeersDestroyed(signaling, {c}, late) EXCEPT
                     !.sent = signaling.sent, !.inbox = signaling.inbox]
  /\ log' = [Quiet EXCEPT !.op = "client-disconnect", !.phase = "done", !.client = c]
  /\ UNCHANGED <<sessionVars, connected, ffmpegStream, outstanding, simVars>>

\* ------------------------------------------------------------ signaling
SignalData == {"offer", "candidate"}

\* The socket emits an incoming webrtc-signal to its listeners in the order
\* they were added; a listener that throws ends the emit.  A listener whose
\* peer is destroyed calls signal() on it, which throws or is ignored
\* (throws).  TRUE when the listener of the living peer is run.
RECURSIVE ReachesPeer(_, _)
ReachesPeer(ls, throws) ==
  IF ls = <<>> THEN FALSE
  ELSE IF Head(ls) THEN TRUE
  ELSE IF throws THEN FALSE
  ELSE ReachesPeer(Tail(ls), throws)

\* The listeners the emit runs, in order, each with the state of the peer
\* it calls signal() on; the emit ends at a listener that throws.
RECURSIVE ListenersRun(_, _, _)
ListenersRun(ls, throws, i) ==
  IF i > Len(ls) THEN <<>>
  ELSE IF ls[i] THEN <<[mech |-> i, res |-> "live"]>> \o ListenersRun(ls, throws, i + 1)
  ELSE IF throws THEN <<[mech |-> i, res |-> "destroyed"]>>
  ELSE <<[mech |-> i, res |-> "destroyed"]>> \o ListenersRun(ls, throws, i + 1)

\* socket.on("webrtc-signal", data => peer.signal(data)): what the peer is
\* handed.
Signalled(data) == data

\* peer.on("signal", data => socket.emit("webrtc-signal", data)): what the
\* client is sent.
Emitted(data) == data

\* The client with socket c sends webrtc-signal.
Signal(c, data, throws) ==
  /\ connected[c]
  /\ Len(signaling.sent[c]) < MaxSignals
  /\ LET ls == signaling.listeners[c]
         live == \E i \in DOMAIN ls : ls[i]
         got == ReachesPeer(ls, throws)
     IN /\ signaling' =
             [signaling EXCEPT !.sent[c] = IF live THEN Append(@, data) ELSE @,
                               !.inbox[c] = IF got THEN Append(@, Signalled(data)) ELSE @]
        /\ log' = [Quiet EXCEPT !.op = "webrtc-signal", !.phase = "done", !.client = c,
                     !.ok = got, !.reason = IF live /\ ~got THEN "PeerDestroyed" ELSE "none",
                     !.args = <<data>>, !.attempts = ListenersRun(ls, throws, 1),
                     !.applied = IF got THEN <<Signalled(data)>> ELSE <<>>]
  /\ UNCHANGED <<sessionVars, connected, ffmpegStream, webrtcStream, outstanding, simVars>>

\* The living peer made for socket c produces a signal: it is emitted to
\* that socket.
PeerSignal(c, data) ==
  /\ c \in webrtcStream.peers
  /\ log' = [Quiet EXCEPT !.op = "peer-signal", !.phase = "done", !.client = c,
               !.msg = "webrtc-signal", !.ok = TRUE, !.args = <<data>>,
               !.applied = <<Emitted(data)>>, !.pushed = connected[c]]
  /\ UNCHANGED <<sessionVars, streamVars>>

\* ------------------------------------------------------- browser client
\* Pointer positions relative to the canvas, in half units; the canvas has
\* the size of the web surface.
PointerXs == {-10, 21, 81, 83}
PointerYs == {21, 400}
Points == PointerXs \X PointerYs
\* const threshold = 30
Threshold == 30

\* handleSimulatorStatus(data): started / stopped set the flag.
HandleSimulatorStatus(status) ==
  /\ app' = [app EXCEPT !.simulatorRunning = (status = "started"), !.steady = FALSE]
  /\ log' = Quiet
  /\ UNCHANGED <<sessionVars, connected, ffmpegStream, webrtcStream, outstanding,
                 signaling, names, simctl>>

\* handlePointerDown(e): ignored while no simulator runs or outside the
\* canvas; else the press is remembered and a tap is sent at once with the
\* rounded position.
HandlePointerDown(a, pt) ==
  IF ~a.simulatorRunning THEN a
  ELSE IF pt[1] < 0 \/ pt[1] > 2 * WebWidth \/ pt[2] < 0 \/ pt[2] > 2 * WebHeight THEN a
  ELSE [a EXCEPT !.touchStartPos = pt,
                 !.emitted = Append(@, [type |-> "tap",
                                        args |-> <<Round(pt[1]), Round(pt[2])>>])]

\* handlePointerUp(e): ignored without a remembered press; a swipe is sent
\* when the pointer moved more than the threshold on either axis; the
\* press is forgotten.
HandlePointerUp(a, pt) ==
  IF ~a.simulatorRunning \/ a.touchStartPos = <<>> THEN a
  ELSE LET AbsDiff(u, v) == IF u >= v THEN u - v ELSE v - u
           deltaX == AbsDiff(pt[1], a.touchStartPos[1])
           deltaY == AbsDiff(pt[2], a.touchStartPos[2])
       IN [a EXCEPT !.touchStartPos = <<>>,
                    !.emitted = IF deltaX > 2 * Threshold \/ deltaY > 2 * Threshold
                                  THEN Append(@, [type |-> "swipe",
                                                  args |-> a.touchStartPos \o pt])
                                  ELSE @]

\* The canvas's listeners (setupCanvasEvents), run as the browser delivers
\* the events of one gesture: mousedown, mouseup, click for the mouse;
\* touchstart, touchend for a finger (preventDefault keeps the browser from
\* synthesising mouse events).
Pressed(pointer, pt) ==
  /\ app.stage = "idle"
  /\ app' = HandlePointerDown([app EXCEPT !.stage = "pressed", !.pointer = pointer,
                                          !.start = pt, !.end = <<>>, !.emitted = <<>>,
                                          !.steady = app.simulatorRunning], pt)
  /\ log' = Quiet
  /\ UNCHANGED <<sessionVars, connected, ffmpegStream, webrtcStream, outstanding,
                 signaling, names, simctl>>

MouseDown(pt) == Pressed("mouse", pt)

TouchStart(pt) == Pressed("touch", pt)

MouseUp(pt) ==
  /\ app.stage = "pressed" /\ app.pointer = "mouse"
  /\ app' = HandlePointerUp([app EXCEPT !.stage = "released", !.end = pt], pt)
  /\ log' = Quiet
  /\ UNCHANGED <<sessionVars, connected, ffmpegStream, webrtcStream, outstanding,
                 signaling, names, simctl>>

\* The click that follows a mouseup on the canvas: its listener calls
\* handlePointerDown once more.
Click ==
  /\ app.stage = "released"
  /\ app' = HandlePointerDown([app EXCEPT !.stage = "idle"], app.end)
  /\ log' = Quiet
  /\ UNCHANGED <<sessionVars, connected, ffmpegStream, webrtcStream, outstanding,
                 signaling, names, simctl>>

TouchEnd(pt) ==
  /\ app.stage = "pressed" /\ app.pointer = "touch"
  /\ app' = HandlePointerUp([app EXCEPT !.stage = "idle", !.end = pt], pt)
  /\ log' = Quiet
  /\ UNCHANGED <<sessionVars, connected, ffmpegStream, webrtcStream, outstanding,
                 signaling, names, simctl>>

\* ---------------------------------------------------------- specifications
ConnectSteps(c, O) ==
  \/ \E cmdOk \in BOOLEAN : XcodeChecked(c, cmdOk)
  \/ \E cmdOk \in BOOLEAN : ServerListed(c, cmdOk)
  \/ \E cmdOk \in BOOLEAN : ConnectListed(c, cmdOk)
  \/ \E cmdOk \in BOOLEAN : BootReturned(c, cmdOk)
  \/ /\ req[c].pc = "confirm"
     /\ \E cmdOk \in BOOLEAN :
          \E out \in Answers(req[c].kind, cmdOk /\ ConfirmRuns(c), O) :
            Confirmed(c, cmdOk, out)

Environment ==
  \E i \in 1..MaxDevices : \E s \in Statuses : EnvStatus(i, s)

Inputs(c, XY, T, O) ==
  \/ \E x, y \in XY : \E out \in Answers("tap", InputRuns("tap", <<x, y>>), O) :
       Tap(c, x, y, out)
  \/ \E sx, ey \in XY :
       \E out \in Answers("swipe", InputRuns("swipe", <<sx, InsideY, InsideX, ey>>), O) :
         Swipe(c, sx, InsideY, InsideX, ey, out)
  \/ \E t \in T : \E out \in Answers("keyboard-input", InputRuns("keyboard-input", t), O) :
       SendKeys(c, t, out)

\* The session under concurrent clients; inputs carry the origin or one
\* valid point, and a chain works at once or not at all.
Next ==
  \/ \E c \in Clients : StartSimulator(c)
  \/ \E c \in Clients : ConnectSteps(c, UniformOutcomes)
  \/ \E c \in Clients : StopSimulator(c)
  \/ \E c \in Clients : Inputs(c, SessionCoords, SessionTexts, UniformOutcomes)
  \/ Environment

Spec == Init /\ [][Next]_vars

\* One client, every input: each coordinate below, at, inside and beyond the
\* surface, every text, every answer of every mechanism.
NextInput ==
  \/ StartSimulator(1)
  \/ ConnectSteps(1, AllOutcomes)
  \/ StopSimulator(1)
  \/ Inputs(1, Coords, Texts, AllOutcomes)
  \/ Environment

SpecInput == Init /\ [][NextInput]_vars

\* One client connecting while time passes.
NextBoot ==
  \/ StartSimulator(1)
  \/ ConnectSteps(1, UniformOutcomes)
  \/ StopSimulator(1)
  \/ Environment
  \/ Tick

SpecBoot == Init /\ [][NextBoot]_vars

\* One client whose commands may fail or never return.
NextCommands ==
  \/ StartSimulator(1)
  \/ ConnectSteps(1, UniformOutcomes)
  \/ StopSimulator(1)
  \/ Environment
  \/ GetSimulators(1)
  \/ \E cmdOk \in BOOLEAN : SimulatorsListed(1, cmdOk)
  \/ CommandHangs(1)

SpecCommands == Init /\ [][NextCommands]_vars

\* The gateway's stream next to the session of one client; either client
\* may start or stop the stream or go away.
NextStream ==
  \/ StartSimulator(1)
  \/ ConnectSteps(1, UniformOutcomes)
  \/ StopSimulator(1)
  \/ Environment
  \/ \E c \in Clients : StartStream(c)
  \/ \E c \in Clients : StopStream(c)
  \/ \E c \in Clients : ClientDisconnect(c)
  \/ ScreenshotTick
  \/ \E c \in Clients : ScreenshotSettled(c)

SpecStream == Init /\ [][NextStream]_vars

\* A WebRTCStream driven through its whole interface.
NextRtc ==
  \/ \E c \in Clients : \E ok \in BOOLEAN : RtcStartStream(c, ok, FALSE)
  \/ RtcStopStream(FALSE)
  \/ EnableWebRTCMode
  \/ EnableScreenshotMode
  \/ \E q \in Qualities : UpdateStreamQuality(q)
  \/ RtcTick
  \/ \E c \in Clients : PeerClosed(c)
  \/ \E c \in Clients : ClientDisconnect(c)
  \/ \E c \in Clients : ScreenshotSettled(c)

SpecRtc == Init /\ [][NextRtc]_vars

\* The simctl server: listing and starting simulators while they change
\* state outside the server.
NextSimctl ==
  \/ \E c \in Clients : \E cmdOk \in BOOLEAN : ListSimulators(c, cmdOk)
  \/ \E c \in Clients : \E deviceId \in 0..MaxDevices : SimctlStartSimulator(c, deviceId)
  \/ \E c \in Clients : \E cmdOk \in BOOLEAN : SimctlStopSimulator(c, cmdOk)
  \/ \E c \in Clients : \E cmdOk \in BOOLEAN : SimBootReturned(c, cmdOk)
  \/ Environment

SpecSimctl == InitSimctl /\ [][NextSimctl]_vars

\* Signaling over a WebRTCStream that is started, stopped and restarted.
NextSignal ==
  \/ \E c \in Clients : \E ok \in BOOLEAN : RtcStartStream(c, ok, FALSE)
  \/ RtcStopStream(FALSE)
  \/ EnableWebRTCMode
  \/ EnableScreenshotMode
  \/ \E c \in Clients : PeerClosed(c)
  \/ \E c \in Clients : \E data \in SignalData : \E throws \in BOOLEAN :
       Signal(c, data, throws)
  \/ \E c \in Clients : \E data \in SignalData : PeerSignal(c, data)

SpecSignal == Init /\ [][NextSignal]_vars

\* The peers map: starts, stops, client clean-up and "close" events, those
\* of destroyed peers arriving in the same turn or late.
NextPeers ==
  \/ \E c \in Clients : \E ok, late \in BOOLEAN : RtcStartStream(c, ok, late)
  \/ \E late \in BOOLEAN : RtcStopStream(late)
  \/ \E c \in Clients : \E late \in BOOLEAN : HandleClientDisconnect(c, late)
  \/ \E c \in Clients : PeerClosed(c)
  \/ \E c \in Clients : PeerLateClose(c)

SpecPeers == Init /\ [][NextPeers]_vars

\* The browser client: simulator status messages and pointer gestures.
NextGesture ==
  \/ \E status \in {"started", "stopped"} : HandleSimulatorStatus(status)
  \/ \E pt \in Points : MouseDown(pt)
  \/ \E pt \in Points : MouseUp(pt)
  \/ Click
  \/ \E pt \in Points : TouchStart(pt)
  \/ \E pt \in Points : TouchEnd(pt)

SpecGesture == Init /\ [][NextGesture]_vars

\* Captures and status reads of one caller.
Captures(c, O) ==
  \/ \E out \in Answers("screenshot", ~CaptureNeedsConnect, O) : Screenshot(c, out)
  \/ \E out \in Answers("takeScreenshot", ~NeedsConnect, O) : TakeScreenshot(c, out)
  \/ GetStatus(c)

\* Every operation on the session, from concurrent callers: connect (with
\* and without an id), disconnect, input and capture.
NextSession ==
  \/ \E c \in Clients : StartSimulator(c)
  \/ \E c \in Clients : ConnectSteps(c, UniformOutcomes)
  \/ \E c \in Clients : StopSimulator(c)
  \/ \E c \in Clients :
       \E out \in Answers("tap", InputRuns("tap", <<InsideX, InsideY>>), UniformOutcomes) :
         Tap(c, InsideX, InsideY, out)
  \/ \E c \in Clients : Captures(c, UniformOutcomes)
  \/ \E c \in Clients : \E id \in 1..MaxDevices : ConnectToDevice(c, id)
  \/ Environment

SpecSession == Init /\ [][NextSession]_vars

\* ------------------------------------------------------------------ claims
\* The last step ended a handler.
Done == log.phase = "done"
\* ... in connectToDevice's catch
ConnectFailure == Done /\ log.reason \in {"NoSimulator", "CommandFailed", "NotBooted"}
\* ... after connectToDevice selected a device and returned it
ConnectSuccess == Done /\ log.how # "none" /\ ~ConnectFailure
Connecting(c) == req[c].pc \in {"clist", "boot", "confirm"}
\* The first device, in list order, that the devices listing shows Booted.
BootedNow == {i \in 1..Len(registry) : registry[i] = "Booted"}
FirstBootedNow ==
  IF BootedNow = {} THEN NoDevice
  ELSE CHOOSE i \in BootedNow : \A j \in BootedNow : i <= j

\* C1, as stated: a connect() with no deviceId whose listing holds a Booted
\* device issues no boot request and ends with the Session Connected to
\* the device it selected.
C1_Original ==
  (Done /\ log.how = "booted") =>
    /\ ~ConnectFailure
    /\ ~log.boot
    /\ isConnected /\ currentDevice = log.dev

\* C1, amended: when the listing holds a Booted device, connect() selects the
\* first Booted device in list order and issues no boot request; it ends
\* Connected to that device if the confirmation listing then shows it
\* Booted, and otherwise fails (the listing command failed, or the device
\* is no longer Booted) with the Session cleared.
C1_SelectsFirstBooted ==
  /\ [][\A c \in Clients :
          (req[c].pc = "clist" /\ FirstBootedNow # NoDevice /\ req'[c].pc # "clist") =>
            \/ req'[c] = [req[c] EXCEPT !.pc = "confirm", !.deviceId = FirstBootedNow,
                                        !.how = "booted"]
            \/ (req'[c].pc = "idle" /\ log'.reason = "NoSimulator")]_vars
  /\ []((Done /\ log.how = "booted") =>
          /\ ~log.boot
          /\ ConnectFailure =>
               (log.reason \in {"CommandFailed", "NotBooted"} /\ ~isConnected)
          /\ ~ConnectFailure =>
               (isConnected /\ currentDevice = log.dev /\ DeviceLineBooted(log.dev)))

\* C1 witness: start-simulator connected to device 2, the first Booted one.
C1_Witness ==
  /\ log.op = "start-simulator" /\ ConnectSuccess /\ log.how = "booted"
  /\ log.dev = 2 /\ isConnected /\ currentDevice = 2

\* C2: a connect() issued while the Session is Connected returns success,
\* issues no boot request and leaves the Session Connected to the device
\* it was connected to before the call.
C2_Original ==
  (Done /\ log.op = "start-simulator" /\ log.from # NoDevice) =>
    /\ log.ok
    /\ ~log.boot
    /\ isConnected /\ currentDevice = log.from

C4_Original ==
  ~(/\ bootWatch.state = "failed"
    /\ bootWatch.age <= ConfirmTicks
    /\ DeviceLineBooted(bootWatch.dev))

C6_ChainOnlyWhileConnected ==
  log.attempts # <<>> =>
    (isConnected /\ currentDevice # NoDevice /\ log.dev = currentDevice)

\* C6 witness: a chain ran after its own connect while another client's
\* handler was still connecting.
C6_Witness ==
  /\ log.attempts # <<>> /\ log.how # "none"
  /\ \E c \in Clients : c # log.client /\ Connecting(c)

\* The number of mechanisms a command's chain holds.
StrategyCount(kind) == Len(CHOOSE o \in OutcomesOf(kind) : TRUE)
\* A chain ran in the last step.
Ran(kind) == Done /\ log.op = kind /\ log.attempts # <<>>
LastAttempt == log.attempts[Len(log.attempts)]
\* A coordinate (in half units) outside the 315x560 web surface.
OutsideX(h) == h < 0 \/ h > 2 * WebWidth
OutsideY(h) == h < 0 \/ h > 2 * WebHeight
OutOfBounds(args) ==
  \E i \in 1..Len(args) : IF i % 2 = 1 THEN OutsideX(args[i]) ELSE OutsideY(args[i])

\* C7: the tap chain tries its mechanisms in the fixed order 1, 2, 3, 4;
\* mechanism k is attempted exactly when mechanisms 1..k-1 all failed, and
\* the first success ends the chain and makes the command succeed.
C7_TapFixedOrder ==
  Ran("tap") =>
    LET n == Len(log.attempts) IN
    /\ n <= StrategyCount("tap")
    /\ \A i \in 1..n : log.attempts[i].mech = i
    /\ \A i \in 1..(n - 1) : log.attempts[i].res # "ok"
    /\ LastAttempt.res # "ok" => n = StrategyCount("tap")
    /\ log.ok <=> LastAttempt.res = "ok"

\* C7 witness: a tap that succeeded at its third mechanism.
C7_Witness == Ran("tap") /\ log.ok /\ Len(log.attempts) = 3

C9_Original ==
  (Done /\ log.op \in {"tap", "swipe"} /\ OutOfBounds(log.args)) =>
    (~log.ok /\ log.attempts = <<>>)

TimerArmed == ffmpegStream.screenshotInterval.armed

\* C11: a start-stream that arrives while the Session is not Connected
\* fails and creates no stream: no timer armed, running flag false.
C11_Original ==
  (Done /\ log.op = "start-stream" /\ log.from = NoDevice) =>
    (~log.ok /\ ~ffmpegStream.isStreaming /\ ~TimerArmed)

\* C12: once a Connected session is disconnected, or lost through a failed
\* connect, no stream is running.
C12_Original ==
  (Done /\ log.from # NoDevice /\ (log.op = "stop-simulator" \/ ConnectFailure)) =>
    (~ffmpegStream.isStreaming /\ ~TimerArmed)

\* C13: after stop-stream has returned, and after the client the stream
\* emits to has disconnected, no timer is armed and no stream exists.
C13_Original ==
  /\ (Done /\ log.op = "stop-stream") => (~TimerArmed /\ ~ffmpegStream.isStreaming)
  /\ (Done /\ log.op = "disconnect" /\ ffmpegStream.currentSocket = log.client) =>
       (~TimerArmed /\ ~ffmpegStream.isStreaming)

RtcTimerArmed == webrtcStream.screenshotInterval.armed
RtcPeerActive == webrtcStream.peers # {}
\* The last step was a mode switch asked of a running stream.
SwitchedWhileRunning == Done /\ log.op = "enable-mode" /\ webrtcStream.isStreaming

C15_UnreadyTickPushesNothing ==
  /\ []((log.op = "screenshot-tick" /\ ~log.ready) =>
          /\ ~log.pushed /\ log.msg = "none" /\ log.reason = "none"
          /\ ffmpegStream.isStreaming /\ TimerArmed)
  /\ [][(log'.op = "screenshot-tick" /\ ~log'.ready) =>
          (outstanding' = outstanding /\ ffmpegStream' = ffmpegStream)]_vars

\* C15 witness: a tick fired for a client that has gone away, with nothing
\* outstanding for it.
C15_Witness ==
  /\ log.op = "screenshot-tick" /\ ~log.ready
  /\ ffmpegStream.currentSocket # NoSocket
  /\ ~connected[ffmpegStream.currentSocket]
  /\ outstanding[ffmpegStream.currentSocket] = 0

\* C16: at most one frame request per client is outstanding at any time.
C16_Original == \A c \in Clients : outstanding[c] <= 1

\* C17: after setQuality(level) on a running polling stream the stream is
\* running with one timer of that level's interval, and a tick still
\* pushes a frame request to a ready client.
C17_Original ==
  /\ (Done /\ log.op = "update-quality" /\ log.ok /\ Intervals(log.args[1]) # 0
        /\ webrtcStream.screenshotMode /\ RtcTimerArmed) =>
       (webrtcStream.isStreaming
          /\ webrtcStream.screenshotInterval.ms = Intervals(log.args[1]))
  /\ (log.op = "rtc-tick" /\ log.ready) => log.pushed

\* ------------------------------------------------- coordination claims
\* No handler is waiting for a command.
AllResolved == \A c \in Clients : req[c].pc = "idle"

\* C18: session requests take effect in arrival order: when the latest
\* request to arrive was a disconnect, and it arrived while a connect was
\* pending, the session is not connected once every request has resolved.
C18_Original == (AllResolved /\ overtaken) => (~isConnected /\ currentDevice = NoDevice)

\* The steps by which the program itself can end client c's connect().
Resolves(c) == ConnectSteps(c, UniformOutcomes)

\* C19: a connect() whose external command never completes can still be
\* resolved by the program (with a Timeout failure).
C19_Original ==
  \A c \in Clients :
    (req[c].pc = "hung" /\ req[c].stage \in {"clist", "boot", "confirm"}) =>
      ENABLED Resolves(c)

\* C20: when the listing command fails during a get-simulators request the
\* client receives an error message, never a successful device list.
C20_Original ==
  (Done /\ log.op = "get-simulators" /\ log.failed) =>
    (log.msg = "error" /\ ~log.ok)

\* The step changes the connected flag or the device reference.
SessionChanged ==
  isConnected' # isConnected \/ currentDevice' # currentDevice
\* A status event: simulator-status, or the error message with which the
\* start-simulator and stop-simulator handlers report a failure.
StatusEvent(l) == l.msg \in {"simulator-status", "error"}

\* C21: every change of the connected flag or of the device reference,
\* those of an automatic connect inside an input or a capture and those of
\* a failed connect included, comes with a status event to the client.
C21_Original == [][SessionChanged => StatusEvent(log')]_vars

\* The last step ended a read of the current device (a capture or the
\* status accessor) that was invoked while no device was connected.
ReadUnconnected ==
  /\ Done
  /\ \/ log.op \in {"screenshot", "takeScreenshot"} /\ log.from = NoDevice
     \/ log.op = "getStatus" /\ log.dev = NoDevice

\* C22: a capture or a read of the device invoked while no device is
\* connected fails and leaves the connected flag and the device reference
\* as they were: not connected, no device.
C22_Original ==
  ReadUnconnected => (~log.ok /\ ~isConnected /\ currentDevice = NoDevice)

\* Client c is in peer-stream mode: the stream holds a living peer for it.
PeerMode(c) == c \in webrtcStream.peers

\* C23: in peer-stream mode every signal a client sends is handed unchanged
\* and in order to that client's peer, and every signal a peer produces is
\* emitted unchanged to the client the peer was made for.
C23_Original ==
  /\ \A c \in Clients : PeerMode(c) => signaling.inbox[c] = signaling.sent[c]
  /\ (Done /\ log.op = "peer-signal") => log.applied = log.args

\* C24: in every reachable state at most one device is connected, a device
\* of the registry, and the connected flag is true exactly when the device
\* reference is not null, whatever connects, disconnects, inputs and
\* captures came before.
C24_FlagIffDevice ==
  /\ isConnected <=> currentDevice # NoDevice
  /\ currentDevice \in {NoDevice} \cup (1..Len(registry))

\* C24 witness: a capture that arrived with no session has connected on its
\* own and left the session on the device it selected.
C24_Witness ==
  /\ Done /\ log.op = "screenshot" /\ log.from = NoDevice
  /\ isConnected /\ currentDevice = log.dev /\ currentDevice # NoDevice

\* The last step ended a connectToDevice(id) whose id is that of a device
\* of the listing.
ConnectedById == Done /\ log.op = "connect" /\ log.args[1] \in 1..Len(registry)

\* C25: connectToDevice(id) with the id of any listed device resolves to
\* that id and leaves the Session connected to it.
C25_Original ==
  ConnectedById =>
    (log.ok /\ log.dev = log.args[1] /\ isConnected /\ currentDevice = log.args[1])

\* The last step was a disconnect.
Disconnected == Done /\ log.op = "stop-simulator"

\* C26: disconnect succeeds from every session state (connected, not
\* connected, a connect pending) and leaves the session not connected with
\* no device; a disconnect that follows a disconnect changes nothing.
C26_DisconnectClears ==
  /\ [](Disconnected => (log.ok /\ ~isConnected /\ currentDevice = NoDevice))
  /\ [][(Disconnected /\ log'.op = "stop-simulator") =>
          (isConnected' = isConnected /\ currentDevice' = currentDevice)]_vars

\* C26 witness: a disconnect has just cleared a session that was connected
\* to a device.
C26_Witness ==
  Disconnected /\ log.from # NoDevice /\ ~isConnected /\ currentDevice = NoDevice

\* The iPhone simulators of the device registry, and the first of them.
IPhones == {i \in 1..Len(registry) : names[i] = "iPhone"}
FirstIPhone == CHOOSE i \in IPhones : \A j \in IPhones : i <= j
\* The last step was startSimulator() making its choice.
SimChosen == log.op = "sim-start" /\ log.phase \in {"selected", "done"}

\* C27: startSimulator with no deviceId selects the first iPhone simulator
\* whenever the registry holds an iPhone, whether or not the simulators
\* were listed before; if that simulator is booted no boot is issued.
C27_Original ==
  (SimChosen /\ IPhones # {}) =>
    /\ log.dev = FirstIPhone
    /\ registry[FirstIPhone] = "Booted" => ~log.boot

\* C28: whatever startStream and stopStream calls came from whatever
\* clients, at most one polling timer is armed, the one the stream holds;
\* a start on a running stream stops it first and leaves one timer.
C28_OneTimer ==
  /\ ffmpegStream.timers <= 1
  /\ ffmpegStream.timers = 1 <=> TimerArmed
  /\ (Done /\ log.op = "start-stream") => ffmpegStream.timers = 1

\* C28 witness: a client has just started a stream while another client's
\* stream was running.
C28_Witness ==
  /\ Done /\ log.op = "start-stream" /\ log.how = "restart"
  /\ ffmpegStream.isStreaming /\ TimerArmed /\ ffmpegStream.timers = 1

\* The last step was a startStream whose backend failed to initialise.
StartFailed == Done /\ log.op = "rtc-start" /\ ~log.ok

\* C29: after a startStream that failed while initialising its backend the
\* stream is stopped: the running flag is false, no timer is armed and no
\* peer is registered.
C29_Original ==
  StartFailed => (~webrtcStream.isStreaming /\ ~RtcTimerArmed /\ ~RtcPeerActive)

\* C30: swipe tries its mechanisms in the fixed order device-level swipe,
\* AppleScript click pair, AppleScript drag; it succeeds if and only if one
\* of the mechanisms it ran succeeded, nothing is attempted after the first
\* success, and the drag fallback runs exactly when both earlier
\* mechanisms failed.
C30_SwipeFixedOrder ==
  Ran("swipe") =>
    LET n == Len(log.attempts) IN
    /\ n \in 1..3
    /\ \A i \in 1..n : log.attempts[i].mech = i
    /\ log.ok <=> \E i \in 1..n : log.attempts[i].res = "ok"
    /\ \A i \in 1..n : log.attempts[i].res = "ok" => i = n
    /\ n = 3 <=> (log.attempts[1].res # "ok" /\ n >= 2 /\ log.attempts[2].res # "ok")

\* C30 witness: a swipe whose first two mechanisms failed and whose drag
\* fallback succeeded.
C30_Witness ==
  /\ Ran("swipe") /\ log.ok /\ Len(log.attempts) = 3
  /\ LastAttempt.mech = 3 /\ LastAttempt.res = "ok"

\* C31: the chain does no scaling: every mechanism a tap ran acted on the
\* one point (round(x), round(y)) the chain was handed, whatever the
\* Simulator window.
C31_Original ==
  Ran("tap") =>
    \A i \in 1..Len(log.clicks) : \A w \in Windows :
      log.clicks[i][w] = <<log.applied>>

\* C32: a tap or swipe whose coordinates all lie on the surface, the left
\* and top edge (0) included, is handed on to the session; the gateway turns
\* a pointer command down only for a coordinate that is out of bounds.
C32_Original ==
  (Done /\ log.op \in {"tap", "swipe"} /\ ~OutOfBounds(log.args)) =>
    log.reason # "InvalidCoordinates"

\* C33: input commands are serialized against the one session: the
\* connects of two input commands never overlap, so no two of them are
\* waiting inside connectToDevice at once and no two of them have asked
\* for a boot.
C33_Original ==
  /\ Cardinality({c \in Clients : req[c].kind \in InputKinds /\ req[c].boot}) <= 1
  /\ Cardinality({c \in Clients : req[c].kind \in InputKinds /\ Connecting(c)}) <= 1

\* C34: the polling stream has one owner across all clients: a client
\* channel is attached exactly while the stream runs and its timer is armed;
\* a start-stream makes the starter the owner of the one timer, also when
\* another client's stream was running; a stop-stream from any client
\* leaves no stream, no timer and no attached channel; and a tick sends a
\* frame request to nobody but the most recent starter.
C34_SingleOwner ==
  [][/\ (ffmpegStream'.currentSocket # NoSocket) <=> ffmpegStream'.isStreaming
     /\ ffmpegStream'.isStreaming <=> ffmpegStream'.screenshotInterval.armed
     /\ log'.op = "start-stream" =>
          /\ ffmpegStream'.currentSocket = log'.client
          /\ ffmpegStream'.screenshotInterval.socket = log'.client
          /\ ffmpegStream'.timers = 1
     /\ log'.op = "stop-stream" =>
          /\ ~ffmpegStream'.isStreaming
          /\ ffmpegStream'.currentSocket = NoSocket
          /\ ffmpegStream'.timers = 0
     /\ \A d \in Clients :
          outstanding'[d] > outstanding[d] =>
            /\ ffmpegStream.isStreaming
            /\ d = ffmpegStream.screenshotInterval.socket
            /\ log'.op = "screenshot-tick" /\ log'.client = d]_vars
\* Client 2 took over a stream that had been sending to client 1, and the
\* tick now sends to client 2.
C34_Witness ==
  /\ log.op = "screenshot-tick" /\ log.pushed /\ log.client = 2
  /\ outstanding[1] > 0
  /\ ffmpegStream.currentSocket = 2
\* Client 2 stopped the stream client 1 had started and was being served by.
C34_WitnessStop ==
  /\ log.op = "stop-stream" /\ log.client = 2
  /\ outstanding[1] > 0 /\ outstanding[2] = 0

\* The mode getStatus reports agrees with the backend that is active:
\* "screenshot" with an armed polling timer and no peer, "webrtc" with no
\* polling timer.
ModeMatchesBackend ==
  IF webrtcStream.screenshotMode
    THEN RtcTimerArmed /\ ~RtcPeerActive
    ELSE ~RtcTimerArmed

\* C35, as stated: whenever a stream is running the reported mode agrees
\* with the active backend, after any sequence of startStream, stopStream,
\* enableScreenshotMode and enableWebRTCMode.
C35_Original == webrtcStream.isStreaming => ModeMatchesBackend

\* C36: the peers map holds exactly the live peers: the peer the map holds
\* for a socket is not destroyed, and every peer that was made and not
\* destroyed is the one the map holds for its socket (so the "close" of an
\* older peer has not removed it).
C36_Original ==
  \A c \in Clients :
    LET ls == signaling.listeners[c] IN
      /\ c \in webrtcStream.peers => (ls # <<>> /\ ls[Len(ls)])
      /\ \A i \in 1..Len(ls) : ls[i] => (c \in webrtcStream.peers /\ i = Len(ls))

\* C37: a webrtc-signal of a client is handed to at most one peer, the live
\* peer the client has now, and never to a peer that was destroyed when the
\* stream was stopped or restarted.
C37_Original ==
  (Done /\ log.op = "webrtc-signal") =>
    /\ Len(log.attempts) <= 1
    /\ \A i \in 1..Len(log.attempts) :
         /\ log.attempts[i].res = "live"
         /\ log.client \in webrtcStream.peers

\* A gesture on the canvas has been delivered in full while the simulator
\* ran, its press and release both on the canvas.
OnCanvas(pt) ==
  pt # <<>> /\ pt[1] >= 0 /\ pt[1] <= 2 * WebWidth /\ pt[2] >= 0 /\ pt[2] <= 2 * WebHeight
GestureDone ==
  /\ app.stage = "idle" /\ app.steady
  /\ OnCanvas(app.start) /\ OnCanvas(app.end)
\* The pointer moved more than the 30-unit threshold on some axis.
Dragged ==
  \/ app.start[1] - app.end[1] > 2 * Threshold \/ app.end[1] - app.start[1] > 2 * Threshold
  \/ app.start[2] - app.end[2] > 2 * Threshold \/ app.end[2] - app.start[2] > 2 * Threshold
Sent(type) == Len(SelectSeq(app.emitted, LAMBDA m : m.type = type))

\* C38: one input command per gesture: a press and release within the
\* threshold sends exactly one tap and no swipe, a drag beyond it exactly
\* one swipe and no tap.
C38_Original ==
  GestureDone =>
    IF Dragged THEN Sent("swipe") = 1 /\ Sent("tap") = 0
               ELSE Sent("tap") = 1 /\ Sent("swipe") = 0

\* The last step was a startSimulator that succeeded, for device log.dev.
SimStarted == Done /\ log.op \in {"sim-start", "sim-boot"} /\ log.ok

\* C39: a stopSimulator() that follows a successful startSimulator, with an
\* explicit or an auto-selected id, succeeds, shuts down exactly the device
\* that was started and leaves no current simulator (a shutdown command
\* that itself fails aside).
C39_Original ==
  [][(SimStarted /\ log'.op = "sim-stop" /\ log'.reason # "CommandFailed") =>
       /\ log'.ok
       /\ log'.dev = log.dev
       /\ simctl'.currentSimulator = NoDevice]_vars

====
